---- MODULE Spec2Model ----
(***************************************************************************)
(* The calendar-constrained date / date-time selection engine of           *)
(* chyvacheck-rhf-ui: RHFDateTimePicker (form/fields/RHFDateTimePicker.tsx)*)
(* and RHFDatePicker (form/Form.tsx) over DateUtils (utils/Date.utils.ts)  *)
(* and NumberUtils (utils/Number.utils.ts).                                *)
(*                                                                         *)
(* A JavaScript Date is a record of its local calendar fields              *)
(* [year, month (0..11), date, hours, minutes]; seconds and milliseconds   *)
(* are zero in every Date the pickers build.  getTime() is the number of   *)
(* minutes since 1970-01-01 00:00 local time, so ordering by getTime() is  *)
(* ordering by calendar fields (no daylight-saving jumps).                 *)
(***************************************************************************)
EXTENDS Integers, Sequences, FiniteSets, TLC

(***************************************************************************)
(* JavaScript built-ins the source relies on                               *)
(***************************************************************************)

\* Days from 1970-01-01 to the civil date (y, m1, d), m1 in 1..12
\* (proleptic Gregorian calendar, the calendar of the JS Date object).
DaysFromCivil(y, m1, d) ==
  LET yy  == IF m1 <= 2 THEN y - 1 ELSE y
      era == yy \div 400
      yoe == yy - era * 400
      mp  == IF m1 > 2 THEN m1 - 3 ELSE m1 + 9
      doy == (153 * mp + 2) \div 5 + d - 1
      doe == yoe * 365 + yoe \div 4 - yoe \div 100 + doy
  IN  era * 146097 + doe - 719468

\* The civil date <<y, m1, d>> of a day number (inverse of DaysFromCivil),
\* computed in steps: era and day of era, year of era, day of year, month.
CivilOfMonth(yBase, doy, mp) ==
  <<yBase + (IF mp < 10 THEN 0 ELSE 1),
    IF mp < 10 THEN mp + 3 ELSE mp - 9,
    doy - (153 * mp + 2) \div 5 + 1>>
CivilOfDayOfYear(yBase, doy) == CivilOfMonth(yBase, doy, (5 * doy + 2) \div 153)
CivilOfYearOfEra(era, doe, yoe) ==
  CivilOfDayOfYear(yoe + era * 400, doe - (365 * yoe + yoe \div 4 - yoe \div 100))
CivilOfEra(era, doe) ==
  CivilOfYearOfEra(era, doe,
                   (doe - doe \div 1460 + doe \div 36524 - doe \div 146096) \div 365)
CivilFromDays(z) == CivilOfEra((z + 719468) \div 146097, (z + 719468) % 146097)

\* The calendar the model covers, tabulated once: the day number of the first
\* of each month, and the civil date of each day number.
CalendarFirstYear == 1960
CalendarLastYear == 2090
MonthStartTable ==
  [mx \in (CalendarFirstYear * 12)..(CalendarLastYear * 12 + 11) |->
     DaysFromCivil(mx \div 12, (mx % 12) + 1, 1)]
CivilTable ==
  [z \in DaysFromCivil(CalendarFirstYear, 1, 1)..DaysFromCivil(CalendarLastYear, 12, 31) |->
     CivilFromDays(z)]

\* The day number of day d of month m0 of year y; m0 and d may overflow.
DayNumber(y, m0, d) == MonthStartTable[y * 12 + m0] + d - 1

\* The Date of a civil date c = <<y, m1, d>> at h:mi.
DateOfCivil(c, h, mi) ==
  [year |-> c[1], month |-> c[2] - 1, date |-> c[3], hours |-> h, minutes |-> mi]

\* new Date(y, m0, d, h, mi): month and day overflow are normalised the way
\* the JS constructor does (day 0 is the last day of the previous month, day 31
\* of a 30-day month is the 1st of the next one, month 12 is January of y+1).
\* Days 1..28 of months 0..11 need no normalisation.
NewDate(y, m0, d, h, mi) ==
  IF m0 \in 0..11 /\ d \in 1..28
  THEN [year |-> y, month |-> m0, date |-> d, hours |-> h, minutes |-> mi]
  ELSE DateOfCivil(CivilTable[DayNumber(y, m0, d)], h, mi)

\* The absent Date (undefined / null): no real Date has date = 0.
NoDate == [year |-> 0, month |-> 0, date |-> 0, hours |-> 0, minutes |-> 0]

\* Date.prototype.getTime(), in minutes.
getTime(d) == (DayNumber(d.year, d.month, d.date) * 24 + d.hours) * 60 + d.minutes

\* new Date(t) for a time stamp t (minutes).
DateOfTime(t) == DateOfCivil(CivilTable[t \div 1440], (t % 1440) \div 60, t % 60)

\* Date.prototype.getDay(): 0 = Sunday .. 6 = Saturday (1970-01-01 was a Thursday).
getDay(d) == (DayNumber(d.year, d.month, d.date) + 4) % 7

Max(a, b) == IF a >= b THEN a ELSE b
Min(a, b) == IF a <= b THEN a ELSE b

\* Math.ceil(a / b) for a >= 0, b > 0.
CeilDiv(a, b) == (a + b - 1) \div b

(***************************************************************************)
(* NumberUtils                                                             *)
(***************************************************************************)

clamp(n, lo, hi) == Min(Max(n, lo), hi)

\* NumberUtils.range(n): the indices 0 .. n-1.
range(n) == 0 .. (n - 1)

(***************************************************************************)
(* DateUtils.  A DateRange is [min |-> Date or NoDate, max |-> Date or     *)
(* NoDate]; an exclusion predicate is the set of day stamps it rejects.    *)
(***************************************************************************)

stripTime(d) == NewDate(d.year, d.month, d.date, 0, 0)

\* The key an exclusion predicate is looked up by: the day's number.
DayKey(d) == DayNumber(d.year, d.month, d.date)

\* A faulty variant of isDateInRange: a date is allowed only between two
\* present bounds.
isDateInRange_needingBothBounds(date, rangeObj, inclusive) ==
  /\ rangeObj.min # NoDate /\ rangeObj.max # NoDate
  /\ getTime(stripTime(date)) >= getTime(stripTime(rangeObj.min))
  /\ getTime(stripTime(date)) <= getTime(stripTime(rangeObj.max))

isDateInRange(date, rangeObj, inclusive) ==
  LET t == getTime(stripTime(date))
  IN  /\ (rangeObj.min # NoDate =>
            LET minT == getTime(stripTime(rangeObj.min))
            IN  ~(IF inclusive THEN t < minT ELSE t <= minT))
      /\ (rangeObj.max # NoDate =>
            LET maxT == getTime(stripTime(rangeObj.max))
            IN  ~(IF inclusive THEN t > maxT ELSE t >= maxT))

\* A faulty variant of isMonthInRange: only the first day of the month is tested.
isMonthInRange_firstDayOnly(year, month0, rangeObj) ==
  isDateInRange(NewDate(year, month0, 1, 0, 0), rangeObj, TRUE)

isMonthInRange(year, month0, rangeObj) ==
  IF rangeObj.min = NoDate /\ rangeObj.max = NoDate THEN TRUE
  ELSE
    LET first == stripTime(NewDate(year, month0, 1, 0, 0))
        last  == stripTime(NewDate(year, month0 + 1, 0, 0, 0))
        left  == IF rangeObj.min # NoDate
                 THEN Max(getTime(first), getTime(stripTime(rangeObj.min)))
                 ELSE getTime(first)
        right == IF rangeObj.max # NoDate
                 THEN Min(getTime(last), getTime(stripTime(rangeObj.max)))
                 ELSE getTime(last)
    IN  left <= right

isYearInRange(year, rangeObj) ==
  IF rangeObj.min = NoDate /\ rangeObj.max = NoDate THEN TRUE
  ELSE
    LET first == stripTime(NewDate(year, 0, 1, 0, 0))
        last  == stripTime(NewDate(year + 1, 0, 0, 0, 0))
        left  == IF rangeObj.min # NoDate
                 THEN Max(getTime(first), getTime(stripTime(rangeObj.min)))
                 ELSE getTime(first)
        right == IF rangeObj.max # NoDate
                 THEN Min(getTime(last), getTime(stripTime(rangeObj.max)))
                 ELSE getTime(last)
    IN  left <= right

\* A faulty variant of getYearRange: the window is around the clock whatever
\* the bounds.
getYearRange_aroundNow(rangeObj, spread, nowDate) ==
  [start |-> nowDate.year - spread, end |-> nowDate.year + spread]

\* DateUtils.getYearRange(range, spread); nowDate supplies new Date().getFullYear().
getYearRange(rangeObj, spread, nowDate) ==
  IF rangeObj.min # NoDate /\ rangeObj.max # NoDate
    THEN [start |-> rangeObj.min.year, end |-> rangeObj.max.year]
  ELSE IF rangeObj.min # NoDate
    THEN [start |-> rangeObj.min.year, end |-> rangeObj.min.year + spread]
  ELSE IF rangeObj.max # NoDate
    THEN [start |-> rangeObj.max.year - spread, end |-> rangeObj.max.year]
  ELSE [start |-> nowDate.year - spread, end |-> nowDate.year + spread]

\* A faulty variant of DateUtils.isDayDisabled: the exclusion predicate is
\* not consulted.
DateUtils_isDayDisabled_rangeOnly(date, rangeObj, disabledDates) ==
  ~isDateInRange(date, rangeObj, TRUE)

\* DateUtils.isDayDisabled(date, range, disabledDates).
DateUtils_isDayDisabled(date, rangeObj, disabledDates) ==
  IF DayKey(date) \in disabledDates THEN TRUE
  ELSE ~isDateInRange(date, rangeObj, TRUE)

startOfMonth(d) == NewDate(d.year, d.month, 1, 0, 0)
endOfMonth(d) == NewDate(d.year, d.month + 1, 0, 0, 0)
addMonths(d, delta) == NewDate(d.year, d.month + delta, 1, 0, 0)


(***************************************************************************)
(* Form values (react-hook-form field.value) and the value codec.          *)
(* A form value is [kind, at]: kind "undefined", "null", "empty" (the      *)
(* empty string), "Date" (at = the Date), "InvalidDate", "string" (at =    *)
(* the fields of the ISO text YYYY-MM-DDTHH:mm:00.000Z, i.e. UTC fields    *)
(* with the month written 1..12), "garbage" (an unparsable string) or      *)
(* "number" (a value that is neither a Date nor a string).                 *)
(***************************************************************************)

\* Date.prototype.getTimezoneOffset() of the host, minutes (UTC - local).
TimezoneOffset == -120

Undefined == [kind |-> "undefined", at |-> NoDate]
EmptyString == [kind |-> "empty", at |-> NoDate]
DateValue(d) == [kind |-> "Date", at |-> d]

\* Date.prototype.toISOString(): the UTC fields of the instant, month 1..12.
toISOString(d) ==
  LET u == DateOfTime(getTime(d) + TimezoneOffset)
  IN  [kind |-> "string",
       at |-> [year |-> u.year, month |-> u.month + 1, date |-> u.date,
               hours |-> u.hours, minutes |-> u.minutes]]

\* A faulty variant of ParseIso: the fields of the text are read as local time.
ParseIso_asLocalTime(text) ==
  NewDate(text.year, text.month - 1, text.date, text.hours, text.minutes)

\* new Date(text) for an ISO text: the instant read as UTC, shown in local time.
ParseIso(text) ==
  DateOfTime((DayNumber(text.year, text.month - 1, text.date) * 24 + text.hours) * 60
             + text.minutes - TimezoneOffset)

\* Form values that are no valid instant: an Invalid Date object (its time is
\* NaN, written as fields of -1), a string new Date() cannot read, and a value
\* that is neither a Date nor a string (a number n; `at` is the instant
\* new Date(n) would give, which parseToDate never builds).
NaNDate == [year |-> -1, month |-> -1, date |-> -1, hours |-> -1, minutes |-> -1]
InvalidDateValue == [kind |-> "InvalidDate", at |-> NaNDate]
UnparsableString == [kind |-> "garbage", at |-> NaNDate]
NumberValue == [kind |-> "number", at |-> NewDate(2023, 11, 31, 9, 30)]

\* A faulty variant of parseToDate: without the typeof check, a number is
\* handed to new Date() as well.
parseToDate_readingNumbers(v) ==
  IF v.kind \in {"undefined", "null", "empty"} THEN NoDate
  ELSE IF v.kind = "Date" THEN v.at
  ELSE IF v.kind = "InvalidDate" THEN NoDate
  ELSE IF v.kind = "string" THEN ParseIso(v.at)
  ELSE IF v.kind = "number" THEN v.at
  ELSE NoDate

parseToDate(v) ==
  IF v.kind \in {"undefined", "null", "empty"} THEN NoDate
  ELSE IF v.kind = "Date" THEN v.at
  ELSE IF v.kind = "InvalidDate" THEN NoDate
  ELSE IF v.kind = "string" THEN ParseIso(v.at)
  ELSE NoDate

(***************************************************************************)
(* State of one mounted picker                                             *)
(***************************************************************************)
VARIABLES
  props,         \* minDate, maxDate, disabledDates, minuteStep, valueAs, requireTime
  now,           \* the clock read by new Date() / Date.now()
  value,         \* field.value: the committed value as stored in the form
  open,          \* popover open
  view,          \* "date" | "month-year"
  displayDate,   \* the displayed month
  draft,         \* the working Date
  picked,        \* [date, time]: date chosen / time chosen
  hourTouched,
  minuteTouched,
  last,          \* history: the last event handled
  emitted,       \* history: number of field.onChange calls made by the last event
  acted,         \* history: the last event ran its handler to the end (a click on a
                 \* disabled item or an early return: FALSE; a close: TRUE iff it
                 \* discarded an incomplete draft)
  valueAtOpen    \* history: field.value when the popover was last opened

vars == <<props, now, value, open, view, displayDate, draft, picked,
          hourTouched, minuteTouched, last, emitted, acted, valueAtOpen>>

\* Everything a handler of the date-time picker may change.
pickerState == <<value, open, view, displayDate, draft, picked,
                 hourTouched, minuteTouched>>

selected == parseToDate(value)
rangeObj == [min |-> props.minDate, max |-> props.maxDate]

\* useMemo([field.value]) + useEffect deps: `selected` is a new object whenever
\* field.value changed (a Date written by commit is always a new object; a
\* string is compared by content), except that null stays null.
SelectedChanged(old, new) ==
  /\ ~(parseToDate(old) = NoDate /\ parseToDate(new) = NoDate)
  /\ (new.kind = "Date" \/ new # old)

(***************************************************************************)
(* RHFDateTimePicker                                                       *)
(***************************************************************************)

\* A faulty variant of SeedBase: the seed ignores minDate.
SeedBase_ignoringMin(sel) == IF sel # NoDate THEN sel ELSE now

\* base / normalized of the open-sync effect and of resetFromSelected.
SeedBase(sel) ==
  IF sel # NoDate THEN sel
  ELSE IF props.minDate # NoDate
    THEN DateOfTime(Max(getTime(now), getTime(props.minDate)))
  ELSE now

SeedDraft(sel) ==
  LET base == SeedBase(sel)
  IN  NewDate(base.year, base.month, base.date, base.hours,
              (base.minutes \div props.minuteStep) * props.minuteStep)

\* A faulty variant of the open-sync effect: the touched flags survive the open.
openSyncEffect_keepingTouched(sel) ==
  /\ displayDate' = startOfMonth(SeedBase(sel))
  /\ draft' = SeedDraft(sel)
  /\ picked' = [date |-> sel # NoDate, time |-> sel # NoDate]
  /\ UNCHANGED <<hourTouched, minuteTouched>>

\* The open-sync useEffect body, run with `selected` = sel.
openSyncEffect(sel) ==
  LET has == sel # NoDate
  IN  /\ displayDate' = startOfMonth(SeedBase(sel))
      /\ draft' = SeedDraft(sel)
      /\ picked' = [date |-> has, time |-> has]
      /\ hourTouched' = has
      /\ minuteTouched' = has

\* A faulty variant of canNavigatePrev: minDate does not stop the navigation.
canNavigatePrev_unbounded == TRUE

canNavigatePrev ==
  IF props.minDate = NoDate THEN TRUE
  ELSE getTime(endOfMonth(addMonths(displayDate, -1))) >= getTime(stripTime(props.minDate))

canNavigateNext ==
  IF props.maxDate = NoDate THEN TRUE
  ELSE getTime(startOfMonth(addMonths(displayDate, 1))) <= getTime(stripTime(props.maxDate))

\* A faulty variant of commit: the Date written carries the UTC fields of d.
commit_utcFields(d) ==
  IF d = NoDate THEN [wrote |-> TRUE, value |-> Undefined]
  ELSE IF ~isDateInRange(d, rangeObj, TRUE) THEN [wrote |-> FALSE, value |-> value]
  ELSE [wrote |-> TRUE, value |-> DateValue(DateOfTime(getTime(d) + TimezoneOffset))]

\* commit(d): what is written to the form, if anything.
commit(d) ==
  IF d = NoDate THEN [wrote |-> TRUE, value |-> Undefined]
  ELSE IF ~isDateInRange(d, rangeObj, TRUE) THEN [wrote |-> FALSE, value |-> value]
  ELSE [wrote |-> TRUE,
        value |-> IF props.valueAs = "iso" THEN toISOString(d) ELSE DateValue(d)]

\* A faulty variant of commitIfComplete: nothing is ever written.
commitIfComplete_skipped(next, nextPicked) == [wrote |-> FALSE, value |-> value]

commitIfComplete(next, nextPicked) ==
  IF ~props.requireTime \/ (nextPicked.date /\ nextPicked.time)
  THEN commit(next)
  ELSE [wrote |-> FALSE, value |-> value]

isDayDisabled(date) == DateUtils_isDayDisabled(date, rangeObj, props.disabledDates)

\* A faulty variant of isMonthDisabled: only minDate closes a month.
isMonthDisabled_minOnly(y, m0) ==
  /\ props.minDate # NoDate
  /\ getTime(stripTime(NewDate(y, m0 + 1, 0, 0, 0))) < getTime(stripTime(props.minDate))

isMonthDisabled(y, m0) ==
  LET first == NewDate(y, m0, 1, 0, 0)
      lastDay == NewDate(y, m0 + 1, 0, 0, 0)
  IN  IF props.minDate # NoDate
         /\ getTime(stripTime(lastDay)) < getTime(stripTime(props.minDate)) THEN TRUE
      ELSE IF props.maxDate # NoDate
         /\ getTime(stripTime(first)) > getTime(stripTime(props.maxDate)) THEN TRUE
      ELSE FALSE

isDateTimeDisabled(dt) == ~isDateInRange(dt, rangeObj, TRUE)

isSameDay(a, b) == a.year = b.year /\ a.month = b.month /\ a.date = b.date

roundUpToStep(minute, step) == Min(59, CeilDiv(minute, step) * step)

\* getLowerBoundForDraft(): [present, minHour, minMinuteStepAligned].
getLowerBoundForDraft ==
  IF props.minDate = NoDate THEN [present |-> FALSE, minHour |-> 0, minMinuteStepAligned |-> 0]
  ELSE IF ~isSameDay(draft, props.minDate)
    THEN [present |-> FALSE, minHour |-> 0, minMinuteStepAligned |-> 0]
  ELSE [present |-> TRUE, minHour |-> props.minDate.hours,
        minMinuteStepAligned |-> roundUpToStep(props.minDate.minutes, props.minuteStep)]

\* The minutes the loops and the minute column enumerate: i * minuteStep for
\* i in range(Math.floor(60 / minuteStep)).
MinuteOptions == {i * props.minuteStep : i \in range(60 \div props.minuteStep)}

isHourCompletelyDisabled(hour) ==
  LET lower == getLowerBoundForDraft
      probeOk(m) == ~isDateTimeDisabled(NewDate(draft.year, draft.month, draft.date, hour, m))
  IN  IF lower.present /\ hour < lower.minHour THEN TRUE
      ELSE IF lower.present /\ hour = lower.minHour
        THEN IF lower.minMinuteStepAligned > 59 THEN TRUE
             ELSE ~(\E m \in MinuteOptions : m >= lower.minMinuteStepAligned /\ probeOk(m))
      ELSE ~(\E m \in MinuteOptions : probeOk(m))

isMinuteDisabled(minute) ==
  LET lower == getLowerBoundForDraft
  IN  IF lower.present /\ draft.hours = lower.minHour /\ minute < lower.minMinuteStepAligned
      THEN TRUE
      ELSE isDateTimeDisabled(NewDate(draft.year, draft.month, draft.date, draft.hours, minute))


\* spread = 50, the default of DateUtils.getYearRange.
DefaultSpread == 50

\* A faulty variant of weekdayIndexMonFirst: the week starts on Sunday.
weekdayIndexMonFirst_sundayFirst(jsDay) == jsDay

\* Monday-first index of a JS weekday number.
weekdayIndexMonFirst(jsDay) == IF jsDay = 0 THEN 6 ELSE jsDay - 1

\* while (out.length % 7 !== 0) out.push(null); an empty cell is 0.
RECURSIVE PadToWeek(_)
PadToWeek(out) == IF Len(out) % 7 # 0 THEN PadToWeek(Append(out, 0)) ELSE out

buildDaysGrid(base) ==
  LET first == startOfMonth(base)
      daysInMonth == endOfMonth(base).date
      startOffset == weekdayIndexMonFirst(getDay(first))
  IN  PadToWeek([i \in 1..startOffset |-> 0] \o [d \in 1..daysInMonth |-> d])

\* The cell of the day grid showing d is rendered.
DayCellShown(d) ==
  LET daysGrid == buildDaysGrid(displayDate)
  IN  \E idx \in 1..Len(daysGrid) : daysGrid[idx] = d

\* The years of the year column: yearRange.start + i, filtered by isYearInRange.
YearOptions ==
  LET yearRange == getYearRange(rangeObj, DefaultSpread, now)
  IN  {y \in {yearRange.start + i : i \in range(yearRange.end - yearRange.start + 1)} :
         isYearInRange(y, rangeObj)}

\* The months of the month column: range(12) filtered by isMonthInRange.
MonthOptions == {m0 \in range(12) : isMonthInRange(displayDate.year, m0, rangeObj)}

(***************************************************************************)
(* Handlers of RHFDateTimePicker.  Each sets pickerState and `emitted`.    *)
(***************************************************************************)

\* A click that reaches no handler (disabled or empty item, early return).
NoEffect == UNCHANGED pickerState /\ emitted' = 0 /\ acted' = FALSE

\* A faulty variant of handleDateSelect: the time-chosen flags survive the pick.
handleDateSelect_keepingTime(dayNum) ==
  LET vis == NewDate(displayDate.year, displayDate.month, clamp(dayNum, 1, 31), 0, 0)
  IN  /\ displayDate' = startOfMonth(vis)
      /\ draft' = vis
      /\ picked' = [picked EXCEPT !.date = TRUE]
      /\ emitted' = 0
      /\ acted' = TRUE
      /\ UNCHANGED <<value, open, view, hourTouched, minuteTouched>>

handleDateSelect(dayNum) ==
  LET vis == NewDate(displayDate.year, displayDate.month, clamp(dayNum, 1, 31), 0, 0)
  IN  /\ displayDate' = startOfMonth(vis)
      /\ draft' = vis
      /\ picked' = [date |-> TRUE, time |-> FALSE]
      /\ hourTouched' = FALSE
      /\ minuteTouched' = FALSE
      /\ emitted' = 0
      /\ acted' = TRUE
      /\ UNCHANGED <<value, open, view>>

\* A faulty variant of setHour: the hour pick writes the draft to the form.
setHour_committing(hour) ==
  LET next == NewDate(draft.year, draft.month, draft.date, clamp(hour, 0, 23), 0)
  IN  /\ value' = DateValue(next)
      /\ emitted' = 1
      /\ draft' = next
      /\ picked' = [date |-> TRUE, time |-> FALSE]
      /\ hourTouched' = TRUE
      /\ minuteTouched' = FALSE
      /\ acted' = TRUE
      /\ UNCHANGED <<open, view, displayDate>>

setHour(hour) ==
  LET h == clamp(hour, 0, 23)
      next == NewDate(draft.year, draft.month, draft.date, h, 0)
  IN  IF isDateTimeDisabled(next) THEN NoEffect
      ELSE /\ picked' = [picked EXCEPT !.date = TRUE, !.time = FALSE]
           /\ hourTouched' = TRUE
           /\ minuteTouched' = FALSE
           /\ draft' = next
           /\ emitted' = 0
           /\ acted' = TRUE
           /\ UNCHANGED <<value, open, view, displayDate>>

\* The state updaters of a click run once (production React), so commitIfComplete
\* is called once per accepted pick.
setMinute(minute) ==
  LET m == clamp(minute, 0, 59)
      next == NewDate(draft.year, draft.month, draft.date, draft.hours, m)
      nextPicked == [picked EXCEPT !.date = TRUE, !.time = TRUE]
      c == commitIfComplete(next, nextPicked)
  IN  IF isDateTimeDisabled(next) THEN NoEffect
      ELSE /\ value' = c.value
           /\ emitted' = IF c.wrote THEN 1 ELSE 0
           /\ acted' = TRUE
           /\ IF c.wrote /\ SelectedChanged(value, c.value)
              THEN openSyncEffect(parseToDate(c.value))   \* open is true here
              ELSE /\ draft' = next
                   /\ picked' = nextPicked
                   /\ minuteTouched' = TRUE
                   /\ UNCHANGED <<displayDate, hourTouched>>
           /\ UNCHANGED <<open, view>>

handleMonthChange(m0) ==
  IF isMonthDisabled(displayDate.year, m0) THEN NoEffect
  ELSE LET next == NewDate(displayDate.year, m0, 1, 0, 0)
       IN  /\ displayDate' = startOfMonth(next)
           /\ draft' = NewDate(next.year, next.month, draft.date, draft.hours, draft.minutes)
           /\ view' = "date"
           /\ emitted' = 0
           /\ acted' = TRUE
           /\ UNCHANGED <<value, open, picked, hourTouched, minuteTouched>>

handleYearChange(year) ==
  LET next == NewDate(year, displayDate.month, 1, 0, 0)
  IN  /\ displayDate' = startOfMonth(next)
      /\ draft' = NewDate(next.year, next.month, draft.date, draft.hours, draft.minutes)
      /\ emitted' = 0
      /\ acted' = TRUE
      /\ UNCHANGED <<value, open, view, picked, hourTouched, minuteTouched>>

navigateMonth(dir) ==
  /\ displayDate' = addMonths(displayDate, dir)
  /\ emitted' = 0
  /\ acted' = TRUE
  /\ UNCHANGED <<value, open, view, draft, picked, hourTouched, minuteTouched>>

toggleView ==
  /\ view' = IF view = "date" THEN "month-year" ELSE "date"
  /\ emitted' = 0
  /\ acted' = TRUE
  /\ UNCHANGED <<value, open, displayDate, draft, picked, hourTouched, minuteTouched>>

\* A faulty variant of resetFromSelected: the incomplete draft is kept.
resetFromSelected_keepingDraft == UNCHANGED <<displayDate, draft, picked>>

resetFromSelected ==
  LET has == selected # NoDate
  IN  /\ displayDate' = startOfMonth(SeedBase(selected))
      /\ draft' = SeedDraft(selected)
      /\ picked' = [date |-> has, time |-> has]

\* const selectingTime = requireTime && picked.date && !picked.time
selectingTime == props.requireTime /\ picked.date /\ ~picked.time

\* let localError: string | undefined, as rendered in the current state.  A
\* non-null `selected` is a valid Date (parseToDate returns null otherwise),
\* so isNaN(selected.getTime()) is false here.
NoLocalError == "undefined"
localError ==
  IF selected = NoDate THEN NoLocalError
  ELSE IF props.minDate # NoDate /\ getTime(selected) < getTime(props.minDate)
  THEN "Date/time early than may be."
  ELSE IF props.maxDate # NoDate /\ getTime(selected) > getTime(props.maxDate)
  THEN "Date/time late than may be."
  ELSE IF props.requireTime /\ ~picked.time
  THEN "Please choose date and time."
  ELSE NoLocalError

\* A faulty variant of onOpenChange: closing leaves an incomplete draft as it
\* is.
onOpenChange_closingAsIs(nextOpen) ==
  IF nextOpen
  THEN /\ open' = TRUE
       /\ openSyncEffect(selected)
       /\ emitted' = 0
       /\ acted' = TRUE
       /\ UNCHANGED <<value, view>>
  ELSE /\ open' = FALSE
       /\ emitted' = 0
       /\ acted' = props.requireTime /\ picked.date /\ ~picked.time
       /\ UNCHANGED <<displayDate, draft, picked, value, view, hourTouched, minuteTouched>>

\* Popover.onOpenChange(nextOpen), followed by the effect when the popover opens.
onOpenChange(nextOpen) ==
  IF nextOpen
  THEN /\ open' = TRUE
       /\ openSyncEffect(selected)
       /\ emitted' = 0
       /\ acted' = TRUE
       /\ UNCHANGED <<value, view>>
  ELSE /\ IF props.requireTime /\ picked.date /\ ~picked.time
          THEN resetFromSelected /\ acted' = TRUE
          ELSE UNCHANGED <<displayDate, draft, picked>> /\ acted' = FALSE
       /\ open' = FALSE
       /\ emitted' = 0
       /\ UNCHANGED <<value, view, hourTouched, minuteTouched>>

\* A faulty variant of clear: the value is removed and the effect never re-runs.
clear_withoutEffect ==
  /\ value' = Undefined
  /\ emitted' = 1
  /\ acted' = TRUE
  /\ UNCHANGED <<open, view, displayDate, draft, picked, hourTouched, minuteTouched>>

\* clear = () => commit(undefined); the effect re-runs when the popover is open
\* (selected goes from a Date to null).
clear ==
  LET c == commit(NoDate)
  IN  /\ value' = c.value
      /\ emitted' = IF c.wrote THEN 1 ELSE 0
      /\ acted' = TRUE
      /\ IF open /\ SelectedChanged(value, c.value)
         THEN openSyncEffect(parseToDate(c.value))
         ELSE UNCHANGED <<displayDate, draft, picked, hourTouched, minuteTouched>>
      /\ UNCHANGED <<open, view>>


(***************************************************************************)
(* Bounds of the model: the user inputs tried lie at or near the anchors   *)
(* (the configured bounds and the clock).                                  *)
(***************************************************************************)
DaySpan == 0     \* days of the month tried: an anchor's day .. that day + DaySpan
HourSpan == 0    \* hours tried: an anchor's hour .. that hour + HourSpan
MonthSpan == 0   \* months navigated to: within MonthSpan months of an anchor
YearSpan == 0    \* years tried: within YearSpan years of an anchor

Abs(n) == IF n < 0 THEN -n ELSE n
Anchors == {a \in {props.minDate, props.maxDate, now} : a # NoDate}
MonthIndex(d) == d.year * 12 + d.month
DaysTried == {d \in 1..31 : \E a \in Anchors : d - a.date \in 0..DaySpan}
HoursTried == {h \in range(24) : \E a \in Anchors : h - a.hours \in 0..HourSpan}
YearsTried ==
  LET yearRange == getYearRange(rangeObj, DefaultSpread, now)
  IN  {y \in {a.year + k : a \in Anchors, k \in (0 - YearSpan)..YearSpan} :
         /\ y - yearRange.start \in range(yearRange.end - yearRange.start + 1)
         /\ isYearInRange(y, rangeObj)}
InHorizon(d) == \E a \in Anchors : Abs(MonthIndex(d) - MonthIndex(a)) <= MonthSpan

(***************************************************************************)
(* Events of RHFDateTimePicker: one action per user event, the item's      *)
(* disabled gate (GridItem / Button) included.  `last` names the event.    *)
(***************************************************************************)
Frame == UNCHANGED <<props, now>>

\* PopoverTrigger click while closed.
Open ==
  /\ ~open
  /\ onOpenChange(TRUE)
  /\ last' = "open"
  /\ UNCHANGED valueAtOpen
  /\ Frame

\* The same event, with the history variable valueAtOpen recorded.
OpenRecorded ==
  /\ ~open
  /\ onOpenChange(TRUE)
  /\ last' = "open"
  /\ valueAtOpen' = value
  /\ Frame

\* Dismissal of the popover (outside click, Escape, trigger click).
Close ==
  /\ open
  /\ onOpenChange(FALSE)
  /\ last' = "close"
  /\ UNCHANGED valueAtOpen
  /\ Frame

\* ChevronLeft / ChevronRight button.
ClickNavigate(dir) ==
  /\ open
  /\ InHorizon(addMonths(displayDate, dir))
  /\ IF view # "date" \/ (dir = -1 /\ ~canNavigatePrev) \/ (dir = 1 /\ ~canNavigateNext)
     THEN NoEffect
     ELSE navigateMonth(dir)
  /\ last' = "navigate"
  /\ UNCHANGED valueAtOpen
  /\ Frame

\* The month/year header button.
ClickHeader ==
  /\ open
  /\ toggleView
  /\ last' = "toggleView"
  /\ UNCHANGED valueAtOpen
  /\ Frame

\* A cell of the day grid showing d (0: an empty cell).
ClickDay(d) ==
  /\ open
  /\ view = "date"
  /\ DayCellShown(d)
  /\ IF d # 0 /\ ~isDayDisabled(NewDate(displayDate.year, displayDate.month, d, 0, 0))
     THEN handleDateSelect(d)
     ELSE NoEffect
  /\ last' = "pickDay"
  /\ UNCHANGED valueAtOpen
  /\ Frame

\* An item of the year column.
ClickYear(y) ==
  /\ open
  /\ view = "month-year"
  /\ y \in YearsTried
  /\ handleYearChange(y)
  /\ last' = "pickYear"
  /\ UNCHANGED valueAtOpen
  /\ Frame

\* An item of the month column.
ClickMonth(m0) ==
  /\ open
  /\ view = "month-year"
  /\ m0 \in range(12) /\ isMonthInRange(displayDate.year, m0, rangeObj)
  /\ InHorizon(NewDate(displayDate.year, m0, 1, 0, 0))
  /\ IF ~isMonthDisabled(displayDate.year, m0) THEN handleMonthChange(m0) ELSE NoEffect
  /\ last' = "pickMonth"
  /\ UNCHANGED valueAtOpen
  /\ Frame

\* An item of the hour column.
ClickHour(h) ==
  /\ open
  /\ h \in HoursTried
  /\ IF ~isHourCompletelyDisabled(h) THEN setHour(h) ELSE NoEffect
  /\ last' = "pickHour"
  /\ UNCHANGED valueAtOpen
  /\ Frame

\* An item of the minute column.
ClickMinute(m) ==
  /\ open
  /\ m \in MinuteOptions
  /\ IF ~isMinuteDisabled(m) THEN setMinute(m) ELSE NoEffect
  /\ last' = "pickMinute"
  /\ UNCHANGED valueAtOpen
  /\ Frame

\* The ClearButton, rendered while a value is shown.
ClickClear ==
  /\ selected # NoDate
  /\ clear
  /\ last' = "clear"
  /\ UNCHANGED valueAtOpen
  /\ Frame

(***************************************************************************)
(* RHFDatePicker (form/Form.tsx): the date-only picker.  Its state is      *)
(* value, open, view and displayDate; it has no draft and no flags.        *)
(***************************************************************************)
Null == [kind |-> "null", at |-> NoDate]

\* DeletionValuesMap[emptyAs].
DeletionValuesMap(emptyAs) ==
  IF emptyAs = "null" THEN Null
  ELSE IF emptyAs = "undefined" THEN Undefined
  ELSE EmptyString

\* The open-sync useEffect body: base = selected ?? minDate ?? maxDate ?? new Date().
DatePicker_openSyncEffect(sel) ==
  displayDate' = startOfMonth(IF sel # NoDate THEN sel
                              ELSE IF props.minDate # NoDate THEN props.minDate
                              ELSE IF props.maxDate # NoDate THEN props.maxDate
                              ELSE now)

DatePicker_canNavigatePrev ==
  IF props.minDate = NoDate THEN TRUE
  ELSE getTime(endOfMonth(addMonths(displayDate, -1))) >= getTime(stripTime(props.minDate))

DatePicker_canNavigateNext ==
  IF props.maxDate = NoDate THEN TRUE
  ELSE getTime(startOfMonth(addMonths(displayDate, 1))) <= getTime(stripTime(props.maxDate))

\* commit(d): what is written to the form, if anything.
DatePicker_commit(d) ==
  IF d = NoDate THEN [wrote |-> TRUE, value |-> DeletionValuesMap(props.emptyAs)]
  ELSE IF ~isDateInRange(d, rangeObj, TRUE) THEN [wrote |-> FALSE, value |-> value]
  ELSE [wrote |-> TRUE,
        value |-> IF props.valueAs = "iso" THEN toISOString(stripTime(d))
                  ELSE DateValue(stripTime(d))]

\* The form write c of a handler, and the effect it triggers while open.
DatePicker_write(c) ==
  /\ value' = c.value
  /\ emitted' = IF c.wrote THEN 1 ELSE 0
  /\ acted' = TRUE
  /\ IF open /\ c.wrote /\ SelectedChanged(value, c.value)
     THEN DatePicker_openSyncEffect(parseToDate(c.value))
     ELSE UNCHANGED displayDate
  /\ UNCHANGED <<open, view>>

\* A faulty variant of handleDateSelect: the day is built and never committed.
DatePicker_handleDateSelect_uncommitted(dayNum) ==
  /\ emitted' = 0
  /\ acted' = TRUE
  /\ UNCHANGED <<value, open, view, displayDate>>

DatePicker_handleDateSelect(dayNum) ==
  DatePicker_write(DatePicker_commit(NewDate(displayDate.year, displayDate.month, dayNum, 0, 0)))

DatePicker_handleMonthChange(m0) ==
  /\ displayDate' = startOfMonth(NewDate(displayDate.year, m0, 1, 0, 0))
  /\ view' = "date"
  /\ emitted' = 0
  /\ acted' = TRUE
  /\ UNCHANGED <<value, open>>

DatePicker_handleYearChange(year) ==
  /\ displayDate' = startOfMonth(NewDate(year, displayDate.month, 1, 0, 0))
  /\ emitted' = 0
  /\ acted' = TRUE
  /\ UNCHANGED <<value, open, view>>

DatePicker_navigateMonth(dir) ==
  /\ displayDate' = addMonths(displayDate, dir)
  /\ emitted' = 0
  /\ acted' = TRUE
  /\ UNCHANGED <<value, open, view>>

DatePicker_toggleView ==
  /\ view' = IF view = "date" THEN "month-year" ELSE "date"
  /\ emitted' = 0
  /\ acted' = TRUE
  /\ UNCHANGED <<value, open, displayDate>>

DatePicker_clear == DatePicker_write(DatePicker_commit(NoDate))

\* A click that reaches no handler of the date-only picker.
DatePicker_NoEffect ==
  UNCHANGED <<value, open, view, displayDate>> /\ emitted' = 0 /\ acted' = FALSE

(***************************************************************************)
(* Events of RHFDatePicker                                                 *)
(***************************************************************************)
\* What no event of the date-only picker touches.
DatePicker_Frame ==
  UNCHANGED <<props, now, draft, picked, hourTouched, minuteTouched, valueAtOpen>>

\* onOpenChange={setOpen} with nextOpen = true, followed by the effect.
DatePicker_Open ==
  /\ ~open
  /\ open' = TRUE
  /\ DatePicker_openSyncEffect(selected)
  /\ emitted' = 0
  /\ acted' = TRUE
  /\ UNCHANGED <<value, view>>
  /\ last' = "open"
  /\ DatePicker_Frame

\* onOpenChange={setOpen} with nextOpen = false.
DatePicker_Close ==
  /\ open
  /\ open' = FALSE
  /\ emitted' = 0
  /\ acted' = TRUE
  /\ UNCHANGED <<value, view, displayDate>>
  /\ last' = "close"
  /\ DatePicker_Frame

DatePicker_ClickNavigate(dir) ==
  /\ open
  /\ InHorizon(addMonths(displayDate, dir))
  /\ IF view # "date" \/ (dir = -1 /\ ~DatePicker_canNavigatePrev)
                      \/ (dir = 1 /\ ~DatePicker_canNavigateNext)
     THEN DatePicker_NoEffect
     ELSE DatePicker_navigateMonth(dir)
  /\ last' = "navigate"
  /\ DatePicker_Frame

DatePicker_ClickHeader ==
  /\ open
  /\ DatePicker_toggleView
  /\ last' = "toggleView"
  /\ DatePicker_Frame

\* A cell of the day grid showing d (0: an empty cell).
DatePicker_ClickDay(d) ==
  /\ open
  /\ view = "date"
  /\ DayCellShown(d)
  /\ IF d # 0 /\ ~DateUtils_isDayDisabled(NewDate(displayDate.year, displayDate.month, d, 0, 0),
                                          rangeObj, props.disabledDates)
     THEN DatePicker_handleDateSelect(d)
     ELSE DatePicker_NoEffect
  /\ last' = "pickDay"
  /\ DatePicker_Frame

DatePicker_ClickYear(y) ==
  /\ open
  /\ view = "month-year"
  /\ y \in YearsTried
  /\ DatePicker_handleYearChange(y)
  /\ last' = "pickYear"
  /\ DatePicker_Frame

\* An item of the month column: the list holds the months isMonthInRange keeps.
DatePicker_ClickMonth(m0) ==
  /\ open
  /\ view = "month-year"
  /\ m0 \in MonthOptions
  /\ InHorizon(NewDate(displayDate.year, m0, 1, 0, 0))
  /\ DatePicker_handleMonthChange(m0)
  /\ last' = "pickMonth"
  /\ DatePicker_Frame

\* The ClearButton, rendered while a value is shown.
DatePicker_ClickClear ==
  /\ selected # NoDate
  /\ DatePicker_clear
  /\ last' = "clear"
  /\ DatePicker_Frame

(***************************************************************************)
(* Configurations and the mounted state                                    *)
(***************************************************************************)
MinA == NewDate(2023, 11, 30, 9, 7)        \* 2023-12-30 09:07
MaxA == NewDate(2024, 0, 1, 9, 30)         \* 2024-01-01 09:30
NowBefore == NewDate(2023, 11, 29, 9, 52)  \* before MinA
NowInside == NewDate(2023, 11, 31, 9, 52)  \* between MinA and MaxA
Excluded == {DayKey(NowInside)}            \* disabledDates rejecting 2023-12-31
SomeValue == NewDate(2023, 11, 31, 9, 25)  \* a value the form may hold at mount

Config(min, max, excl, step, valueAs, requireTime) ==
  [minDate |-> min, maxDate |-> max, disabledDates |-> excl, minuteStep |-> step,
   valueAs |-> valueAs, requireTime |-> requireTime]

\* <<props, clock, Date held by the form at mount (NoDate: none)>>
Scenarios ==
  { <<Config(MinA, MaxA, {}, 20, "date", TRUE), NowBefore, NoDate>>,
    <<Config(MinA, MaxA, Excluded, 20, "iso", TRUE), NowInside, SomeValue>>,
    <<Config(MinA, MaxA, {}, 25, "date", FALSE), NowInside, NoDate>>,
    <<Config(MinA, NoDate, Excluded, 20, "date", TRUE), NowInside, NoDate>>,
    <<Config(NoDate, NoDate, {}, 20, "iso", TRUE), NowInside, NoDate>>,
    <<Config(NoDate, NoDate, {}, 20, "date", FALSE), NowBefore, SomeValue>> }

encode(p, d) ==
  IF d = NoDate THEN Undefined
  ELSE IF p.valueAs = "iso" THEN toISOString(d) ELSE DateValue(d)

\* useState initialisers of RHFDateTimePicker.
InitOf(scenarios) ==
  /\ \E sc \in scenarios :
       /\ props = sc[1]
       /\ now = sc[2]
       /\ value = encode(sc[1], sc[3])
  /\ open = FALSE
  /\ view = "date"
  /\ displayDate = now
  /\ draft = now
  /\ picked = [date |-> FALSE, time |-> FALSE]
  /\ hourTouched = FALSE
  /\ minuteTouched = FALSE
  /\ last = "mount"
  /\ emitted = 0
  /\ acted = FALSE
  /\ valueAtOpen = value

Init == InitOf(Scenarios)

\* Every event but the opening of the popover.
Events ==
  \/ Close
  \/ \E dir \in {-1, 1} : ClickNavigate(dir)
  \/ ClickHeader
  \/ \E d \in DaysTried \cup {0} : ClickDay(d)
  \/ \E y \in YearsTried : ClickYear(y)
  \/ \E m0 \in MonthOptions : ClickMonth(m0)
  \/ \E h \in HoursTried : ClickHour(h)
  \/ \E m \in MinuteOptions : ClickMinute(m)
  \/ ClickClear

Next == Open \/ Events

Spec == Init /\ [][Next]_vars

\* The same machine with the history variable valueAtOpen recorded at each open.
NextRecorded == OpenRecorded \/ Events

InitRecorded == InitOf({<<Config(MinA, MaxA, {}, 30, "date", TRUE), NowBefore, NoDate>>})

SpecRecorded == InitRecorded /\ [][NextRecorded]_vars

\* The date-only picker.  Its props carry emptyAs and no minuteStep / requireTime.
ConfigDate(min, max, excl, valueAs, emptyAs) ==
  [minDate |-> min, maxDate |-> max, disabledDates |-> excl, valueAs |-> valueAs,
   emptyAs |-> emptyAs]

ScenariosDate ==
  { <<ConfigDate(MinA, MaxA, Excluded, "date", "empty-string"), NowInside, NoDate>>,
    <<ConfigDate(MinA, MaxA, {}, "iso", "null"), NowBefore, SomeValue>>,
    <<ConfigDate(NoDate, NoDate, {}, "date", "undefined"), NowInside, NoDate>> }

\* useState initialisers of RHFDatePicker (draft and the flags are not part of it).
InitDate == InitOf(ScenariosDate)

NextDate ==
  \/ DatePicker_Open
  \/ DatePicker_Close
  \/ \E dir \in {-1, 1} : DatePicker_ClickNavigate(dir)
  \/ DatePicker_ClickHeader
  \/ \E d \in DaysTried \cup {0} : DatePicker_ClickDay(d)
  \/ \E y \in YearsTried : DatePicker_ClickYear(y)
  \/ \E m0 \in MonthOptions : DatePicker_ClickMonth(m0)
  \/ DatePicker_ClickClear

SpecDate == InitDate /\ [][NextDate]_vars

\* The lower bound of the time columns: minDate = 2024-01-10 09:mm for every
\* minute mm, every minuteStep up to MaxMinuteStep, no maxDate, and the clock on
\* the day before, so that an open seeds the draft on min's day at min's hour.
MaxMinuteStep == 59
MinAt(mm) == NewDate(2024, 0, 10, 9, mm)
NowDayBefore == NewDate(2024, 0, 9, 9, 52)

ScenariosLowerBound ==
  { <<Config(MinAt(mm), NoDate, {}, step, "date", TRUE), NowDayBefore, NoDate>> :
      mm \in range(60), step \in 1..MaxMinuteStep }

InitLowerBound == InitOf(ScenariosLowerBound)

NextLowerBound ==
  \/ Open
  \/ Close
  \/ \E h \in HoursTried : ClickHour(h)
  \/ \E m \in MinuteOptions : ClickMinute(m)

SpecLowerBound == InitLowerBound /\ [][NextLowerBound]_vars

\* Month navigation at the bounds: minDate = maxDate = 2024-03-01 with the clock
\* in February (an open shows March) or in April (an open shows April), and a
\* range from February to April with the clock in March.
OnlyDay == NewDate(2024, 2, 1, 0, 0)          \* 2024-03-01 00:00
NowFebruary == NewDate(2024, 1, 29, 9, 52)
NowApril == NewDate(2024, 3, 1, 9, 52)
MinFebruary == NewDate(2024, 1, 29, 9, 7)
MaxApril == NewDate(2024, 3, 1, 9, 30)
NowMarch == NewDate(2024, 2, 1, 9, 52)

ScenariosNavigate ==
  { <<Config(OnlyDay, OnlyDay, {}, 20, "date", TRUE), NowFebruary, NoDate>>,
    <<Config(OnlyDay, OnlyDay, {}, 20, "date", TRUE), NowApril, NoDate>>,
    <<Config(MinFebruary, MaxApril, {}, 20, "date", TRUE), NowMarch, NoDate>> }

InitNavigate == InitOf(ScenariosNavigate)

SpecNavigate == InitNavigate /\ [][Next]_vars

\* Re-picking a committed value: the form holds a step-aligned value inside the
\* range at mount, stored as an ISO text or as a Date; valueAtOpen stays the
\* value held at mount.
AlignedValue == NewDate(2023, 11, 31, 9, 30)   \* 2023-12-31 09:30

ScenariosRepick ==
  { <<Config(MinA, MaxA, {}, 30, "iso", TRUE), NowInside, AlignedValue>>,
    <<Config(MinA, NoDate, {}, 30, "date", FALSE), NowBefore, AlignedValue>> }

InitRepick == InitOf(ScenariosRepick)

SpecRepick == InitRepick /\ [][Next]_vars

\* The value codec at work: either picker mounted without bounds, the clock
\* drawn from days at year and month ends (leap and common February) and hours
\* on both sides of the UTC day change, the value stored as Date and as ISO text.
CodecDays == {<<2024, 0, 1>>, <<2024, 2, 1>>, <<2023, 2, 1>>, <<2024, 11, 31>>, <<2024, 5, 15>>}
CodecHours == {0, 1, 2, 12, 23}

ScenariosCodec ==
  { <<Config(NoDate, NoDate, {}, 30, valueAs, TRUE), NewDate(c[1], c[2], c[3], h, 52), NoDate>> :
      valueAs \in {"date", "iso"}, c \in CodecDays, h \in CodecHours }

ScenariosCodecDate ==
  { <<ConfigDate(NoDate, NoDate, {}, valueAs, "undefined"), NewDate(c[1], c[2], c[3], 12, 52),
      NoDate>> :
      valueAs \in {"date", "iso"}, c \in CodecDays }

InitCodec == InitOf(ScenariosCodec) \/ InitOf(ScenariosCodecDate)

\* The mounted picker is RHFDateTimePicker (its props carry minuteStep).
IsDateTimePicker == "minuteStep" \in DOMAIN props

NextCodec ==
  \/ IsDateTimePicker /\ Open
  \/ IsDateTimePicker /\ Close
  \/ IsDateTimePicker /\ \E h \in HoursTried : ClickHour(h)
  \/ IsDateTimePicker /\ \E m \in MinuteOptions : ClickMinute(m)
  \/ IsDateTimePicker /\ ClickClear
  \/ ~IsDateTimePicker /\ DatePicker_Open
  \/ ~IsDateTimePicker /\ DatePicker_Close
  \/ ~IsDateTimePicker /\ \E d \in DaysTried : DatePicker_ClickDay(d)
  \/ ~IsDateTimePicker /\ DatePicker_ClickClear

SpecCodec == InitCodec /\ [][NextCodec]_vars

\* Decoding what the form holds at mount: every kind of field.value, in either
\* picker, without bounds.
ExternalValues ==
  { Undefined, Null, EmptyString, DateValue(AlignedValue), toISOString(AlignedValue),
    InvalidDateValue, UnparsableString, NumberValue }

InitDecode ==
  /\ \E v \in ExternalValues :
       /\ \/ props = Config(NoDate, NoDate, {}, 30, "date", TRUE)
          \/ props = ConfigDate(NoDate, NoDate, {}, "iso", "null")
       /\ now = NowInside
       /\ value = v
  /\ open = FALSE
  /\ view = "date"
  /\ displayDate = now
  /\ draft = now
  /\ picked = [date |-> FALSE, time |-> FALSE]
  /\ hourTouched = FALSE
  /\ minuteTouched = FALSE
  /\ last = "mount"
  /\ emitted = 0
  /\ acted = FALSE
  /\ valueAtOpen = value

SpecDecode == InitDecode /\ [][NextCodec]_vars

\* The day grid of every month: the clock drawn from each month of a century
\* leap year, two common years (February 2021 starts on a Monday) and a leap
\* year; an open shows the clock's month.
GridYears == {2000, 2021, 2023, 2024}

ScenariosGrid ==
  { <<Config(NoDate, NoDate, {}, 30, "date", TRUE), NewDate(y, m0, 15, 9, 52), NoDate>> :
      y \in GridYears, m0 \in range(12) }

InitGrid == InitOf(ScenariosGrid)

NextGrid ==
  \/ Open
  \/ Close
  \/ ClickHeader
  \/ \E d \in DaysTried \cup {0} : ClickDay(d)

SpecGrid == InitGrid /\ [][NextGrid]_vars

\* The range tests of DateUtils at work: minDate and maxDate each absent or
\* drawn from days at the ends of months and years (so that ranges of one day,
\* of a month, across a year end and with min later than max all occur), the
\* clock on 2024-03-01, no exclusion predicate.
MarchEnd == NewDate(2024, 2, 31, 23, 30)      \* 2024-03-31 23:30
YearEnd == NewDate(2023, 11, 31, 9, 7)        \* 2023-12-31 09:07
YearStart == NewDate(2025, 0, 1, 9, 30)       \* 2025-01-01 09:30
RangeBounds == {NoDate, YearEnd, MinFebruary, OnlyDay, MarchEnd, MaxApril, YearStart}

ScenariosRange ==
  { <<Config(min, max, {}, 30, "date", TRUE), NowMarch, NoDate>> :
      min \in RangeBounds, max \in RangeBounds }

InitRange == InitOf(ScenariosRange)

NextRange ==
  \/ Open
  \/ Close
  \/ ClickHeader
  \/ \E dir \in {-1, 1} : ClickNavigate(dir)
  \/ \E d \in DaysTried \cup {0} : ClickDay(d)
  \/ \E y \in YearsTried : ClickYear(y)
  \/ \E m0 \in MonthOptions : ClickMonth(m0)

SpecRange == InitRange /\ [][NextRange]_vars

\* Exclusion predicates next to ranges: none, one rejecting 2024-03-01 and one
\* rejecting every day of 2024, the year each bounded range here lies in.
ExcludeOnlyDay == {DayKey(OnlyDay)}
ExcludeEveryDay == DayNumber(2024, 0, 1)..DayNumber(2024, 11, 31)
ScenariosExclude ==
  { <<Config(r[1], r[2], excl, 30, "date", TRUE), NowMarch, NoDate>> :
      r \in {<<MinFebruary, MaxApril>>, <<OnlyDay, OnlyDay>>, <<MinFebruary, MarchEnd>>},
      excl \in {{}, ExcludeOnlyDay, ExcludeEveryDay} }
  \cup
  { <<Config(NoDate, NoDate, excl, 30, "date", TRUE), NowMarch, NoDate>> :
      excl \in {{}, ExcludeOnlyDay} }

InitExclude == InitOf(ScenariosExclude)

SpecExclude == InitExclude /\ [][NextRange]_vars

(***************************************************************************)
(* Properties                                                              *)
(***************************************************************************)
\* d lies in [minDate, maxDate] compared as full instants (year .. minute).
WithinRangeFull(d) ==
  /\ (props.minDate # NoDate => getTime(d) >= getTime(props.minDate))
  /\ (props.maxDate # NoDate => getTime(d) <= getTime(props.maxDate))

\* d lies in [minDate, maxDate] compared by calendar day.
WithinRangeByDay(d) ==
  /\ (props.minDate # NoDate => DayKey(d) >= DayKey(props.minDate))
  /\ (props.maxDate # NoDate => DayKey(d) <= DayKey(props.maxDate))

\* The instant an open seeds from: the committed value, else max(now, min),
\* else now.
SeedInstant ==
  IF selected # NoDate THEN selected
  ELSE IF props.minDate # NoDate /\ getTime(props.minDate) > getTime(now) THEN props.minDate
  ELSE now

\* <<draft, displayDate, picked, hourTouched, minuteTouched>> as seeded from the
\* committed value: minute floored to the step, month of the seed, flags all
\* true iff a value is committed.
SeededState ==
  << [SeedInstant EXCEPT !.minutes = (SeedInstant.minutes \div props.minuteStep)
                                     * props.minuteStep],
     [year |-> SeedInstant.year, month |-> SeedInstant.month, date |-> 1,
      hours |-> 0, minutes |-> 0],
     [date |-> selected # NoDate, time |-> selected # NoDate],
     selected # NoDate,
     selected # NoDate >>

\* The popover is being closed with a date chosen and the time not confirmed.
ClosingIncomplete == last' = "close" /\ props.requireTime /\ picked.date /\ ~picked.time

\* C1: every value the date-time picker writes to the form is absent or an
\* instant v with min <= v <= max, compared as full instants.
C1_WrittenValueWithinFullRange ==
  (emitted = 1 /\ selected # NoDate) => WithinRangeFull(selected)

\* C2: with requireTime = true the committed value changes only on a minute
\* pick or on Clear (every other event leaves it unchanged and emits nothing),
\* and each accepted minute pick emits exactly one change.
C2_OnlyMinutePickCommits ==
  [][props.requireTime =>
       /\ (last' \notin {"pickMinute", "clear"} => value' = value /\ emitted' = 0)
       /\ (last' = "pickMinute" /\ acted' => emitted' = 1)
       /\ (last' = "pickMinute" /\ ~acted' => value' = value /\ emitted' = 0)]_vars

\* C2 witness: an accepted minute pick under requireTime that wrote a new value.
C2_AcceptedMinutePick ==
  props.requireTime /\ last = "pickMinute" /\ acted /\ emitted = 1 /\ selected = draft

\* C3: a minute pick whose resulting full instant violates [min, max] is
\* rejected; that is, the instant an accepted minute pick leaves in the draft
\* lies within [min, max] as a full instant.
C3_AcceptedMinuteWithinFullRange ==
  (last = "pickMinute" /\ acted) => WithinRangeFull(draft)

\* C4 (as stated): closing while incomplete leaves the committed value exactly
\* what it was before the picker opened, the draft reseeded from it, and no
\* draft in progress.
C4_CloseRestoresValueAtOpen ==
  [][ClosingIncomplete =>
       /\ value' = valueAtOpen
       /\ draft' = SeedDraft(parseToDate(valueAtOpen))
       /\ ~(picked'.date /\ ~picked'.time)]_vars

\* C4 (amended): closing while incomplete leaves the committed value exactly
\* what it was just before the close (the last value committed, in this open
\* session or earlier), reseeds the draft and the displayed month from it, and
\* leaves no draft in progress.
C4_CloseKeepsLastCommitted ==
  [][ClosingIncomplete =>
       /\ value' = value
       /\ draft' = SeededState[1]
       /\ displayDate' = SeededState[2]
       /\ picked' = SeededState[3]
       /\ ~(picked'.date /\ ~picked'.time)]_vars

\* C4 witness: an incomplete draft was discarded by a close, in a session that
\* had committed a value since it opened.
C4_ClosedIncompleteAfterCommit ==
  last = "close" /\ acted /\ value # valueAtOpen /\ picked.date /\ picked.time

\* C5: with requireTime = false, picking an enabled day commits an instant on
\* that day as a direct result of the day pick.
C5_DayPickCommitsWithoutTime ==
  (~props.requireTime /\ last = "pickDay" /\ acted)
    => (emitted = 1 /\ selected # NoDate /\ isSameDay(selected, draft))

\* C6: in the date-only picker, picking an enabled day d commits
\* (displayedYear, displayedMonth, d) at midnight; a day pick outside
\* [min, max] by calendar day commits nothing; every value a day pick writes
\* lies within the range by calendar day.
C6_DayPickCommitsStrippedDate ==
  [][\A d \in 1..31 :
       DatePicker_ClickDay(d) =>
         /\ (~DateUtils_isDayDisabled(NewDate(displayDate.year, displayDate.month, d, 0, 0),
                                      rangeObj, props.disabledDates)
               => /\ emitted' = 1
                  /\ parseToDate(value') =
                       [year |-> displayDate.year, month |-> displayDate.month,
                        date |-> d, hours |-> 0, minutes |-> 0])
         /\ (~WithinRangeByDay(NewDate(displayDate.year, displayDate.month, d, 0, 0))
               => emitted' = 0 /\ value' = value)
         /\ (emitted' = 1 => WithinRangeByDay(parseToDate(value')))]_vars

\* C6 witness: a day pick of the date-only picker wrote a midnight date as an
\* ISO text.
C6_DayPickWroteDate ==
  /\ last = "pickDay" /\ acted /\ emitted = 1 /\ props.valueAs = "iso"
  /\ value.kind = "string" /\ selected.hours = 0 /\ selected.minutes = 0

\* C7: no user action commits an excluded day: the calendar day of a value
\* written to the form is never one disabledDates rejects.
C7_WrittenDayNotExcluded ==
  (emitted = 1 /\ selected # NoDate) => DayKey(selected) \notin props.disabledDates

\* C8 (as stated): after Clear, issued with the picker open or closed, the
\* committed value is absent, the date-chosen and time-chosen flags are false
\* and the draft equals the open seed for an absent value.
C8_ClearResetsDraftAlways ==
  last = "clear" =>
    /\ selected = NoDate
    /\ picked = [date |-> FALSE, time |-> FALSE]
    /\ draft = SeededState[1]

\* C8 (amended): Clear sets the committed value to absent with one change
\* emitted; issued while the picker is open it resets the draft, the displayed
\* month and all flags as on open; issued while the picker is closed it leaves
\* the draft, the displayed month and the flags as they were.
C8_ClearResetsDraftWhileOpen ==
  [][last' = "clear" =>
       /\ value' = Undefined
       /\ emitted' = 1
       /\ IF open
          THEN /\ draft' = SeedDraft(NoDate)
               /\ displayDate' = startOfMonth(SeedBase(NoDate))
               /\ picked' = [date |-> FALSE, time |-> FALSE]
               /\ ~hourTouched' /\ ~minuteTouched'
          ELSE UNCHANGED <<draft, displayDate, picked, hourTouched, minuteTouched>>]_vars

\* C8 witness: Clear was issued while the picker was closed and the flags of
\* the committed selection are still set.
C8_ClearedWhileClosed ==
  last = "clear" /\ ~open /\ selected = NoDate /\ picked.date /\ picked.time

\* C9: right after an open, the draft is the seed (committed value, else
\* max(now, min), else now) with its minute floored to the step, the displayed
\* month is the seed's month, and the chosen and touched flags are all true if
\* a value was committed and all false otherwise.
C9_OpenSeedsDraft ==
  last = "open" =>
    <<draft, displayDate, picked, hourTouched, minuteTouched>> = SeededState

\* C9 witness: an open with no committed value and the clock before min seeded
\* the draft from min, with the minute floored.
C9_OpenSeededFromMin ==
  /\ last = "open" /\ selected = NoDate /\ props.minDate # NoDate
  /\ getTime(now) < getTime(props.minDate)
  /\ isSameDay(draft, props.minDate) /\ draft.minutes < props.minDate.minutes

\* C10 (as stated): the complete picker state after an open, view mode
\* included, is determined by the committed value, the configuration and the
\* clock.  The first open after mount shows the day grid, so being determined
\* means showing the day grid after every open.
C10_OpenStateDeterminedWithView ==
  last = "open" =>
    /\ view = "date"
    /\ <<draft, displayDate, picked, hourTouched, minuteTouched>> = SeededState

\* C10 (amended): the picker state after an open, apart from the view mode, is
\* determined by the committed value, the configuration and the clock; the
\* view mode is the one the previous open/close cycle left.
C10_OpenStateDeterminedButView ==
  [][last' = "open" =>
       /\ view' = view
       /\ value' = value
       /\ <<draft', displayDate', picked', hourTouched', minuteTouched'>> = SeededState]_vars

\* C10 witness: an open that shows the month/year lists left by an earlier cycle.
C10_OpenedInMonthYearView ==
  last = "open" /\ view = "month-year" /\ draft = SeededState[1]


\* The draft is on min's day at min's hour, the popover open.
AtLowerBoundHour ==
  /\ open /\ props.minDate # NoDate
  /\ isSameDay(draft, props.minDate) /\ draft.hours = props.minDate.hours

\* The smallest multiple of minuteStep that is >= min's minute.
NextMultipleAtOrAfterMin ==
  CeilDiv(props.minDate.minutes, props.minuteStep) * props.minuteStep

\* The items of the minute column that are not disabled.
SelectableMinutes == {m \in MinuteOptions : ~isMinuteDisabled(m)}

\* C11: with the draft on min's day at min's hour, the smallest selectable
\* minute is the smallest multiple of minuteStep that is >= min's minute, for
\* every minuteStep in 1..59 and every min minute in 0..59; if that multiple
\* exceeds 59, no minute of the hour is selectable.
C11_MinuteFloorIsNextMultiple ==
  AtLowerBoundHour =>
    IF NextMultipleAtOrAfterMin <= 59
    THEN /\ NextMultipleAtOrAfterMin \in SelectableMinutes
         /\ \A m \in SelectableMinutes : m >= NextMultipleAtOrAfterMin
    ELSE SelectableMinutes = {}

\* C11 witness: the minute floor was picked and committed where min's minute is
\* not on the grid (the floor is min's minute rounded up).
C11_PickedRoundedUpFloor ==
  /\ AtLowerBoundHour /\ last = "pickMinute" /\ acted /\ emitted = 1
  /\ selected.minutes = NextMultipleAtOrAfterMin
  /\ selected.minutes > props.minDate.minutes


\* C12: for the current draft day, hour h is selectable (not disabled in the
\* hour column) exactly when some minute-grid point m makes (draft day, h, m)
\* lie within [min, max] as a full instant.
C12_HourSelectableIffSomeMinuteInRange ==
  open =>
    \A h \in range(24) :
      ~isHourCompletelyDisabled(h)
        <=> \E m \in MinuteOptions :
              WithinRangeFull(NewDate(draft.year, draft.month, draft.date, h, m))


\* C13: an accepted hour pick h sets the draft's hour to h, keeps the draft's
\* date, marks the time as not chosen (the minute is to be confirmed again),
\* and commits nothing; a rejected hour pick changes nothing; so the committed
\* value is unchanged by every hour pick, for requireTime true or false.
C13_HourPickNeverCommits ==
  [][\A h \in range(24) :
       (last' = "pickHour" /\ ClickHour(h)) =>
         /\ value' = value
         /\ emitted' = 0
         /\ IF acted'
            THEN /\ draft'.hours = h
                 /\ isSameDay(draft', draft)
                 /\ picked' = [date |-> TRUE, time |-> FALSE]
                 /\ ~minuteTouched'
            ELSE UNCHANGED <<draft, picked, hourTouched, minuteTouched, displayDate>>]_vars

\* C13 witness: an accepted hour pick moved the draft off the committed value,
\* which is still committed.
C13_HourPickedOverCommittedValue ==
  /\ last = "pickHour" /\ acted /\ emitted = 0
  /\ selected # NoDate /\ draft # selected /\ draft.hours = selected.hours
  /\ picked = [date |-> TRUE, time |-> FALSE]


\* C14: with requireTime = true, picking day d sets the draft's date to
\* (displayed year, displayed month, d), sets date-chosen to true and
\* time-chosen, hour-touched and minute-touched to false, and leaves the
\* committed value unchanged; a day outside the range by calendar day, an
\* excluded day or an empty cell cannot be picked and leaves the state unchanged.
C14_DayPickStartsDraft ==
  [][\A d \in DaysTried \cup {0} :
       (props.requireTime /\ last' = "pickDay" /\ ClickDay(d)) =>
         IF /\ d # 0
            /\ WithinRangeByDay(NewDate(displayDate.year, displayDate.month, d, 0, 0))
            /\ DayKey(NewDate(displayDate.year, displayDate.month, d, 0, 0))
                 \notin props.disabledDates
         THEN /\ <<draft'.year, draft'.month, draft'.date>>
                   = <<displayDate.year, displayDate.month, d>>
              /\ picked' = [date |-> TRUE, time |-> FALSE]
              /\ ~hourTouched' /\ ~minuteTouched'
              /\ value' = value /\ emitted' = 0
         ELSE UNCHANGED pickerState /\ emitted' = 0]_vars

\* C14 witness: a day pick over a committed value started a draft on another
\* day, the value still committed.
C14_DayPickedOverCommittedValue ==
  /\ props.requireTime /\ last = "pickDay" /\ acted /\ emitted = 0
  /\ selected # NoDate /\ ~isSameDay(draft, selected)
  /\ picked = [date |-> TRUE, time |-> FALSE] /\ ~hourTouched /\ ~minuteTouched


\* The first day of the month dir months away from the displayed month.
MonthAway(dir) ==
  [year |-> (MonthIndex(displayDate) + dir) \div 12,
   month |-> (MonthIndex(displayDate) + dir) % 12,
   date |-> 1, hours |-> 0, minutes |-> 0]

\* The month dir away still has a day on the allowed side of the bound: its
\* last day is on or after min's date (dir = -1), its first day is on or
\* before max's date (dir = 1).
HasOpenDay(dir) ==
  IF dir = -1
  THEN props.minDate = NoDate \/ MonthIndex(props.minDate) <= MonthIndex(displayDate) - 1
  ELSE props.maxDate = NoDate \/ MonthIndex(props.maxDate) >= MonthIndex(displayDate) + 1

\* C15: navigation by dir = -1 / +1 moves the displayed month when the target
\* month still has a day on the allowed side of the bound (and the day grid is
\* shown) and is otherwise a no-op; a navigation that is carried out changes
\* only the displayed month: the draft, the chosen and touched flags, the view
\* and the committed value are unchanged.
C15_NavigationOnlyMovesMonth ==
  [][\A dir \in {-1, 1} :
       (last' = "navigate" /\ ClickNavigate(dir)) =>
         IF HasOpenDay(dir) /\ view = "date"
         THEN /\ displayDate' = MonthAway(dir)
              /\ UNCHANGED <<value, open, view, draft, picked, hourTouched, minuteTouched>>
              /\ emitted' = 0
         ELSE UNCHANGED pickerState /\ emitted' = 0]_vars

\* C15 witness: with min = max = 2024-03-01 and March 2024 displayed, a
\* navigation was rejected.
C15_RejectedAtOnlyDay ==
  /\ last = "navigate" /\ ~acted /\ view = "date"
  /\ props.minDate = OnlyDay /\ props.maxDate = OnlyDay
  /\ displayDate = OnlyDay


\* C16: the minute grid offered by the date-time picker is exactly the set of
\* multiples of minuteStep within 0..59, for every minuteStep, those that do
\* not divide 60 included.
C16_MinuteGridIsAllMultiples ==
  open => MinuteOptions = {m \in 0..59 : m % props.minuteStep = 0}


\* The committed value is present, within [min, max] as a full instant, not
\* excluded, and on the minute grid.
CommittedAllowedAligned ==
  /\ selected # NoDate
  /\ WithinRangeFull(selected)
  /\ DayKey(selected) \notin props.disabledDates
  /\ selected.minutes % props.minuteStep = 0

\* Re-picking the committed value's day, hour and minute: each pick is accepted,
\* the day and hour picks leave the value committed, and the minute pick
\* commits a value equal to the one committed before.
RepickKeepsValue ==
  /\ (/\ last' = "pickDay" /\ MonthIndex(displayDate) = MonthIndex(selected)
      /\ ClickDay(selected.date))
       => (acted' /\ isSameDay(draft', selected) /\ value' = value)
  /\ (/\ last' = "pickHour" /\ isSameDay(draft, selected)
      /\ ClickHour(selected.hours))
       => (acted' /\ isSameDay(draft', selected) /\ draft'.hours = selected.hours
                 /\ value' = value)
  /\ (/\ last' = "pickMinute" /\ isSameDay(draft, selected)
      /\ draft.hours = selected.hours /\ ClickMinute(selected.minutes))
       => (acted' /\ emitted' = 1 /\ parseToDate(value') = selected
                 /\ draft' = selected)

\* The pick that produced the current state, applied again, leaves the draft,
\* the flags and the committed instant as they are.
SamePickAgainChangesNothing ==
  /\ (last = "pickDay" /\ acted /\ last' = "pickDay" /\ ClickDay(draft.date))
       => (draft' = draft /\ picked' = picked /\ value' = value)
  /\ (last = "pickHour" /\ acted /\ last' = "pickHour" /\ ClickHour(draft.hours))
       => (draft' = draft /\ picked' = picked /\ value' = value)
  /\ (last = "pickMinute" /\ acted /\ last' = "pickMinute" /\ ClickMinute(draft.minutes))
       => (draft' = draft /\ picked' = picked
           /\ parseToDate(value') = parseToDate(value))

\* C17: starting from a committed, allowed, step-aligned value v, re-picking
\* v's day, then v's hour, then v's minute (or only v's minute right after an
\* open) commits a value equal to v, with no shifted date, hour or minute; and
\* a pick event applied twice in a row leaves the same draft and committed
\* value as applied once.
C17_RepickIsIdempotent ==
  [][/\ CommittedAllowedAligned => RepickKeepsValue
     /\ SamePickAgainChangesNothing]_vars

\* C17 witness: a minute pick committed a value equal to the one the form held
\* at mount.
C17_RepickedCommittedValue ==
  /\ last = "pickMinute" /\ acted /\ emitted = 1
  /\ parseToDate(valueAtOpen) # NoDate /\ selected = parseToDate(valueAtOpen)
  /\ value.kind = "string"


\* C18: decoding (parseToDate) the value a picker stores for a committed
\* instant v gives v: in the date-time picker v is (draft day, draft hour,
\* picked minute), in the date-only picker v is the picked day at midnight;
\* the stored value is a Date (valueAs "date") or an ISO text (valueAs "iso").
C18_DecodeOfStoredValueIsCommitted ==
  [][IF IsDateTimePicker
     THEN \A m \in MinuteOptions :
            (last' = "pickMinute" /\ ClickMinute(m) /\ emitted' = 1) =>
              /\ value'.kind = IF props.valueAs = "iso" THEN "string" ELSE "Date"
              /\ parseToDate(value')
                   = [year |-> draft.year, month |-> draft.month, date |-> draft.date,
                      hours |-> draft.hours, minutes |-> m]
     ELSE \A d \in DaysTried :
            (last' = "pickDay" /\ DatePicker_ClickDay(d) /\ emitted' = 1) =>
              /\ value'.kind = IF props.valueAs = "iso" THEN "string" ELSE "Date"
              /\ parseToDate(value')
                   = [year |-> displayDate.year, month |-> displayDate.month, date |-> d,
                      hours |-> 0, minutes |-> 0]]_vars

\* C18 witness: a committed instant is stored as an ISO text whose fields lie
\* on the previous UTC day, in another year, and decodes to the draft.
C18_StoredTextOnPreviousDay ==
  /\ emitted = 1 /\ value.kind = "string"
  /\ value.at.year = selected.year - 1 /\ value.at.month = 12
  /\ IsDateTimePicker /\ last = "pickMinute" /\ selected = draft


\* d is a valid instant: its fields are those of a calendar date and time.
IsValidInstant(d) ==
  /\ d.month \in 0..11 /\ d.date \in 1..31 /\ d.hours \in 0..23 /\ d.minutes \in 0..59
  /\ d = DateOfTime(getTime(d))

\* The kinds of field.value that are neither a valid Date nor a readable text.
AbsentKinds == {"undefined", "null", "empty", "InvalidDate", "garbage", "number"}

\* C19: whatever the form holds (a valid instant, a parsable string, an
\* unparsable string, an invalid Date, an empty string, null / undefined, a
\* value of another type), the decoded value is a valid instant or absent, and
\* it is absent for every unparsable or malformed input; the picker then
\* behaves as with no committed value: an open seeds from the clock with no
\* date or time chosen, and there is nothing to clear.
C19_DecodeGivesInstantOrAbsent ==
  [][/\ (selected = NoDate \/ IsValidInstant(selected))
     /\ (selected' = NoDate \/ IsValidInstant(selected'))
     /\ value.kind \in AbsentKinds =>
          /\ selected = NoDate
          /\ last' # "clear"
          /\ last' = "open" =>
               /\ displayDate' = startOfMonth(now)
               /\ IsDateTimePicker =>
                    /\ draft' = SeedDraft(NoDate)
                    /\ picked' = [date |-> FALSE, time |-> FALSE]
                    /\ ~hourTouched' /\ ~minuteTouched']_vars

\* C19 witness: the picker was opened over an Invalid Date and seeded itself
\* from the clock.
C19_OpenedOverInvalidDate ==
  /\ last = "open" /\ value = InvalidDateValue /\ selected = NoDate
  /\ IsDateTimePicker /\ isSameDay(draft, now) /\ ~picked.date


\* The number of days of month m0 (0..11) of year y, by the leap-year rule.
DaysInMonthOf(y, m0) ==
  IF m0 = 1
  THEN IF (y % 4 = 0 /\ y % 100 # 0) \/ y % 400 = 0 THEN 29 ELSE 28
  ELSE IF m0 \in {3, 5, 8, 10} THEN 30 ELSE 31

\* The weekday (0 = Sunday) of the 1st of month m0 of year y, by the
\* month-offset rule.
WeekdayOfFirst(y, m0) ==
  LET t == <<0, 3, 2, 5, 0, 3, 5, 1, 4, 6, 2, 4>>
      yy == IF m0 < 2 THEN y - 1 ELSE y
  IN  (yy + yy \div 4 - yy \div 100 + yy \div 400 + t[m0 + 1] + 1) % 7

\* Monday-first index of the 1st of the displayed month.
LeadingCells == (WeekdayOfFirst(displayDate.year, displayDate.month) + 6) % 7

\* C20: the day grid of the displayed month has a length that is a multiple of
\* 7, as many leading empty cells as the Monday-first weekday index of the 1st,
\* then exactly the days 1..daysInMonth in increasing order, then empty cells.
C20_DayGridShape ==
  open =>
    /\ Len(buildDaysGrid(displayDate)) % 7 = 0
    /\ \A i \in 1..Len(buildDaysGrid(displayDate)) :
         buildDaysGrid(displayDate)[i]
           = IF i <= LeadingCells THEN 0
             ELSE IF i <= LeadingCells + DaysInMonthOf(displayDate.year, displayDate.month)
               THEN i - LeadingCells
             ELSE 0
    /\ Len(buildDaysGrid(displayDate))
         >= LeadingCells + DaysInMonthOf(displayDate.year, displayDate.month)

\* C20 witness: a day was picked from a grid of six weeks.
C20_PickedFromSixWeekGrid ==
  last = "pickDay" /\ acted /\ Len(buildDaysGrid(displayDate)) = 42


\* The years the range tests are examined for.
RangeYears == 2023..2025

\* Day number n lies in [min, max] by calendar day, an absent bound unbounded.
DayNumberAllowed(n) ==
  /\ (props.minDate # NoDate => n >= DayKey(props.minDate))
  /\ (props.maxDate # NoDate => n <= DayKey(props.maxDate))

\* Some day of month m0 of year y lies in [min, max] by calendar day.
MonthHasAllowedDay(y, m0) ==
  \E n \in DayNumber(y, m0, 1)..DayNumber(y, m0, DaysInMonthOf(y, m0)) : DayNumberAllowed(n)

\* C21: isMonthInRange(year, month, range) is true iff some day from the first
\* to the last day of the month lies in [min, max] by calendar day (an absent
\* bound unbounded), and isYearInRange(year, range) is true iff some day from
\* Jan 1 to Dec 31 does.
C21_MonthAndYearOpenIffSomeDayInRange ==
  \A y \in RangeYears :
    /\ \A m0 \in range(12) : isMonthInRange(y, m0, rangeObj) <=> MonthHasAllowedDay(y, m0)
    /\ isYearInRange(y, rangeObj) <=> \E m0 \in range(12) : MonthHasAllowedDay(y, m0)

\* C21 witness: with min = max = 2024-03-01 the month list offered March 2024
\* and neither February nor April, and March was selected.
C21_OnlyMarchOpen ==
  /\ last = "pickMonth" /\ acted
  /\ props.minDate = OnlyDay /\ props.maxDate = OnlyDay
  /\ displayDate = OnlyDay /\ MonthOptions = {2}


\* C22: the year window is [min.year, max.year] with both bounds present,
\* [min.year, min.year + spread] with only min, [max.year - spread, max.year]
\* with only max and [now.year - spread, now.year + spread] with neither, the
\* spread being 50 by default; the year column lists the years of the window.
C22_YearWindow ==
  /\ DefaultSpread = 50
  /\ getYearRange(rangeObj, DefaultSpread, now).start
       = IF props.minDate # NoDate THEN props.minDate.year
         ELSE IF props.maxDate # NoDate THEN props.maxDate.year - 50
         ELSE now.year - 50
  /\ getYearRange(rangeObj, DefaultSpread, now).end
       = IF props.maxDate # NoDate THEN props.maxDate.year
         ELSE IF props.minDate # NoDate THEN props.minDate.year + 50
         ELSE now.year + 50
  /\ \A y \in YearOptions :
       /\ y >= getYearRange(rangeObj, DefaultSpread, now).start
       /\ y <= getYearRange(rangeObj, DefaultSpread, now).end

\* C22 witness: with only a minDate in 2023 the year column offered the 51
\* years 2023..2073, and one was selected.
C22_YearListFromMinOnly ==
  /\ last = "pickYear" /\ acted
  /\ props.minDate = YearEnd /\ props.maxDate = NoDate
  /\ YearOptions = 2023..2073


\* Range wide has each bound absent or no tighter than the bound of narrow.
Widens(narrow, wide) ==
  /\ wide.min # NoDate => (narrow.min # NoDate /\ getTime(wide.min) <= getTime(narrow.min))
  /\ wide.max # NoDate => (narrow.max # NoDate /\ getTime(wide.max) >= getTime(narrow.max))

\* The instants the range check is examined for.
RangeProbes == (RangeBounds \ {NoDate}) \cup {now, draft, displayDate}

\* C23: for every instant x and every range wide that widens the configured
\* range (a bound removed, min earlier or max later), x in the configured
\* range implies x in wide.
C23_RangeCheckMonotone ==
  \A min \in RangeBounds, max \in RangeBounds :
    Widens(rangeObj, [min |-> min, max |-> max]) =>
      \A x \in RangeProbes :
        isDateInRange(x, rangeObj, TRUE) => isDateInRange(x, [min |-> min, max |-> max], TRUE)

\* C23 witness: a day inside [2024-02-29, 2024-04-01] was picked, and it is
\* inside the wider range that starts on 2023-12-31 and has no max.
C23_PickedDayAllowedByWiderRange ==
  /\ last = "pickDay" /\ acted
  /\ props.minDate = MinFebruary /\ props.maxDate = MaxApril
  /\ Widens(rangeObj, [min |-> YearEnd, max |-> NoDate])
  /\ isDateInRange(draft, rangeObj, TRUE)
  /\ isDateInRange(draft, [min |-> YearEnd, max |-> NoDate], TRUE)


\* The days the displayed month's grid has cells for.
DisplayedDays ==
  {NewDate(displayDate.year, displayDate.month, d, 0, 0) :
     d \in 1..DaysInMonthOf(displayDate.year, displayDate.month)}

\* C24: isDayDisabled(day, range, exclude) is true iff exclude(day) is true
\* or the day lies outside [min, max] by calendar day; with a predicate that
\* excludes every day, every day cell is disabled while a month or a year
\* that contains in-range days is still reported open by isMonthInRange and
\* isYearInRange.
C24_DayDisabledIffExcludedOrOutside ==
  /\ \A day \in DisplayedDays \cup RangeProbes :
       isDayDisabled(day) <=> (DayKey(day) \in props.disabledDates \/ ~WithinRangeByDay(day))
  /\ props.disabledDates = ExcludeEveryDay =>
       /\ \A day \in DisplayedDays : isDayDisabled(day)
       /\ \A m0 \in range(12) :
            MonthHasAllowedDay(displayDate.year, m0) =>
              /\ isMonthInRange(displayDate.year, m0, rangeObj)
              /\ isYearInRange(displayDate.year, rangeObj)

\* C24 witness: with every day excluded and the range [2024-02-29,
\* 2024-04-01], March is shown and listed open, and a click on its in-range
\* day 1 was refused.
C24_EveryDayExcludedMonthOpen ==
  /\ props.disabledDates = ExcludeEveryDay
  /\ props.minDate = MinFebruary /\ props.maxDate = MaxApril
  /\ open /\ last = "pickDay" /\ ~acted
  /\ displayDate.year = 2024 /\ displayDate.month = 2
  /\ WithinRangeByDay(NewDate(2024, 2, 1, 0, 0))
  /\ 2 \in MonthOptions
  /\ \A day \in DisplayedDays : isDayDisabled(day)


\* C25: in every reachable state, a draft on min's calendar day has an hour
\* not below min's hour (right after a day pick, a month or year selection
\* or open seeding included).
C25_DraftHourNotBelowMinHour ==
  (props.minDate # NoDate /\ DayKey(draft) = DayKey(props.minDate))
    => draft.hours >= props.minDate.hours

\* C25 case: a day pick put the draft on min's day at an hour below min's.
C25_DayPickedOnMinDayAtMidnight ==
  /\ last = "pickDay" /\ acted
  /\ props.minDate # NoDate /\ DayKey(draft) = DayKey(props.minDate)
  /\ draft.hours = 0 /\ props.minDate.hours > 0


\* C26: whenever the date-time picker is closed, "requireTime and date chosen
\* and time not chosen" is false.
C26_NoIncompleteDraftWhileClosed ==
  ~open => ~selectingTime

\* C26 witness: with requireTime, the popover was closed over a draft with a
\* date and no time, and the close rolled the draft back.
C26_ClosedOverIncompleteDraft ==
  /\ last = "close" /\ acted /\ ~open
  /\ props.requireTime
  /\ picked.date = picked.time


\* [min, max] holds at least one instant (an absent bound is unbounded).
RangeNonEmpty ==
  (props.minDate # NoDate /\ props.maxDate # NoDate)
    => getTime(props.minDate) <= getTime(props.maxDate)

\* C27: while the picker is open and [min, max] is non-empty, the displayed
\* month always contains an in-range day: isMonthInRange(displayed year,
\* displayed month) holds after open seeding, navigation, and month and year
\* selection.
C27_DisplayedMonthHasInRangeDay ==
  (open /\ RangeNonEmpty)
    => isMonthInRange(displayDate.year, displayDate.month, rangeObj)

\* C27 case: with the clock inside a non-empty range, a year offered by the
\* year list was selected and the displayed month has no in-range day.
C27_YearPickedIntoClosedMonth ==
  /\ last = "pickYear" /\ acted /\ open
  /\ RangeNonEmpty
  /\ isDateInRange(now, rangeObj, TRUE)
  /\ isYearInRange(displayDate.year, rangeObj)
  /\ ~isMonthInRange(displayDate.year, displayDate.month, rangeObj)


\* C28: after a month or a year is selected from the list in the date-time
\* picker, the draft's year and month equal the displayed year and month
\* while its day of month, hour and minute are as before, whatever the prior
\* draft day (1..31) and the target month; the flags and the committed value
\* are unchanged.
C28_ListSelectionKeepsDraftDayAndTime ==
  [][(last' \in {"pickMonth", "pickYear"} /\ acted')
       => /\ draft'.year = displayDate'.year
          /\ draft'.month = displayDate'.month
          /\ draft'.date = draft.date
          /\ draft'.hours = draft.hours
          /\ draft'.minutes = draft.minutes
          /\ picked' = picked
          /\ hourTouched' = hourTouched
          /\ minuteTouched' = minuteTouched
          /\ value' = value]_vars

\* C28 case: a month was selected from the list while a day was chosen, and
\* the draft lies in another month than the displayed one.
C28_DraftOutsideSelectedMonth ==
  /\ last = "pickMonth" /\ acted
  /\ picked.date
  /\ draft.month # displayDate.month


\* C29: with requireTime = true the local error "Please choose date and
\* time." is raised only while a draft is in progress: in every reachable
\* state where the committed value is present and within [min, max] and no
\* date-without-time draft is in progress (the initial state of a picker
\* mounted with an existing value and never opened included), the local error
\* is absent.
C29_NoLocalErrorWithoutDraft ==
  (/\ props.requireTime
   /\ selected # NoDate
   /\ WithinRangeFull(selected)
   /\ ~(picked.date /\ ~picked.time))
    => localError = NoLocalError

\* C29 case: a picker mounted with a value inside [min, max] and never opened
\* shows "Please choose date and time.".
C29_ErrorShownAtMount ==
  /\ last = "mount" /\ ~open
  /\ props.requireTime
  /\ selected # NoDate /\ WithinRangeFull(selected)
  /\ picked = [date |-> FALSE, time |-> FALSE]
  /\ localError = "Please choose date and time."


\* A bound is absent, or min's calendar day is not later than max's.
MinDayNotAfterMaxDay ==
  (props.minDate # NoDate /\ props.maxDate # NoDate)
    => DayKey(props.minDate) <= DayKey(props.maxDate)

\* C30 as stated: isMonthDisabled(year, month) equals
\* NOT isMonthInRange(year, month, range) for every year, month and range,
\* bounds absent or present, min later than max included.
C30_MonthDisabledIffNotInRange ==
  \A y \in RangeYears, m0 \in range(12) :
    isMonthDisabled(y, m0) <=> ~isMonthInRange(y, m0, rangeObj)

\* C30 amended: a month isMonthInRange reports open is never disabled by
\* isMonthDisabled, for every year, month and range; the two are each
\* other's negation whenever a bound is absent or min's day is not later than
\* max's day.
C30_MonthDisabledIffNotInRangeWhenOrdered ==
  \A y \in RangeYears, m0 \in range(12) :
    /\ isMonthInRange(y, m0, rangeObj) => ~isMonthDisabled(y, m0)
    /\ MinDayNotAfterMaxDay => (isMonthDisabled(y, m0) <=> ~isMonthInRange(y, m0, rangeObj))

\* C30 witness: under [2024-02-29, 2024-04-01] a month of the list was
\* selected; it is open by both tests while January and May are closed by
\* both.
C30_ListedMonthSelected ==
  /\ last = "pickMonth" /\ acted
  /\ props.minDate = MinFebruary /\ props.maxDate = MaxApril
  /\ isMonthInRange(displayDate.year, displayDate.month, rangeObj)
  /\ ~isMonthDisabled(displayDate.year, displayDate.month)
  /\ isMonthDisabled(2024, 0) /\ ~isMonthInRange(2024, 0, rangeObj)
  /\ isMonthDisabled(2024, 4) /\ ~isMonthInRange(2024, 4, rangeObj)

====
